---- MODULE Spec2Model ----
(***************************************************************************)
(* A model of the TTS conversion-and-assembly pipeline of the              *)
(* ebook-to-audiobook converter:                                           *)
(*   core/tts_converter.py  TTSConverter  (cache, engines, chapter tasks)  *)
(*   core/audio_merger.py   AudioMerger   (load, normalize, export, tag)   *)
(*   app.py, backend/app/tasks/conversion_tasks.py  the conversion jobs    *)
(* Specification Spec is one call of convert_chapters_to_audio on a        *)
(* constructed converter, SpecCache the same call under small cache        *)
(* settings; SpecMerge is one call of merge_audio_files on a constructed   *)
(* merger, followed by the read-only queries; SpecJob is one conversion    *)
(* job of the Celery task or of the Streamlit page.                        *)
(***************************************************************************)
EXTENDS Integers, Sequences, FiniteSets, TLC

VARIABLES
    config,         \* the cache settings read from the environment (settings.py)
    engine,         \* self.engine after construction
    coqui_tts,      \* self.coqui_tts is not None (the model is loaded)
    cache_enabled,  \* self.cache_enabled
    cache,          \* self.cache: key -> stored bytes
    numChapters,    \* len(chapters)
    chapters,       \* chapter index -> chapter['text'] (NoText: the key is absent)
    pc,             \* chapter index -> position of its convert_single_chapter task
    permits,        \* the semaphore's free permits
    files,          \* chapter index -> content of the file at that chapter's output_path
    buf,            \* chapter index -> cached_audio read at line 128
    attempts,       \* chapter index -> engines invoked for that chapter, in order
    lookup,         \* chapter index -> how the cache lookup of lines 125-128 went
    priorOk,        \* chapter index -> tasks that had returned True when this one looked up
    stored,         \* chapter index -> whether the store of line 152 took effect
    main,           \* position of convert_chapters_to_audio itself
    returned,       \* the list it returns
    merge,          \* state of one merge_audio_files call (see SpecMerge)
    job,            \* state of one conversion job and its records (see SpecJob)
    fn              \* one call of a pure function, its arguments and its result

convVars == <<config, engine, coqui_tts, cache_enabled, cache, numChapters, chapters, pc,
              permits, files, buf, attempts, lookup, priorOk, stored, main, returned>>
vars == <<convVars, merge, job, fn>>

-----------------------------------------------------------------------------
(* Bounds of the model *)

\* chapter lists of every length 0..MaxChapters are explored in full
MaxChapters == 3
\* the largest CACHE_MAX_SIZE explored by SpecCache
MaxCacheSetting == 2

(* Program constants *)

\* f"{index:03d}": the minimum width of the index in a chapter's file name
PadWidth == 3
\* max_concurrent = 2 if self.engine == 'coqui-xtts'
CoquiCeiling == 2
\* settings.max_concurrent_requests (default)
max_concurrent_requests == 3
\* settings.cache_max_size and settings.cache_ttl when the environment sets
\* neither CACHE_MAX_SIZE nor CACHE_TTL
cache_max_size == 1000
cache_ttl == 86400

supported_engines == {"coqui-xtts", "edge-tts", "gtts", "pyttsx3"}
\* the spec's fallback priority order (section 4.2)
EnginePriority == <<"coqui-xtts", "edge-tts", "gtts", "pyttsx3">>
default_voice == "v"
speech_rate == "1.0"

-----------------------------------------------------------------------------
(* Texts, file contents, paths *)

NoText == "NoText"                     \* the chapter dict has no 'text' key
RawTexts == {NoText, <<>>, <<"a">>, <<"b">>}

NoFile == <<"nofile">>
Stale == <<"stale">>                   \* a file left at the path by an earlier run
Partial == <<"partial">>               \* a file an engine was writing when it raised
\* the complete audio of text as synthesized by the engine call of task `call`:
\* engines are not deterministic, no two syntheses are taken to be
\* byte-identical, so equal bytes are copied bytes
Audio(text, call) == <<"audio", text, call>>

\* _prepare_text_for_tts, for texts without abbreviations, markers and
\* whitespace runs: empty stays empty, a sentence ending is ensured
_prepare_text_for_tts(text) ==
    IF text = <<>> THEN <<>>
    ELSE IF text[Len(text)] \in {".", "!", "?"} THEN text
    ELSE Append(text, ".")

\* hashlib.md5(...).hexdigest(), collisions aside: an injective tag
Md5(content) == <<"md5", content>>

\* the characters of the engine names, voices and speech rates that occur
Chars(str) ==
    CASE str = "coqui-xtts" -> <<"c", "o", "q", "u", "i", "-", "x", "t", "t", "s">>
      [] str = "edge-tts"   -> <<"e", "d", "g", "e", "-", "t", "t", "s">>
      [] str = "gtts"       -> <<"g", "t", "t", "s">>
      [] str = "pyttsx3"    -> <<"p", "y", "t", "t", "s", "x", "3">>
      [] str = "v"          -> <<"v">>
      [] str = "gtts_v"     -> <<"g", "t", "t", "s", "_", "v">>
      [] str = "1.0"        -> <<"1", ".", "0">>
      [] str = "1.5"        -> <<"1", ".", "5">>

\* line 104: f"{text}_{engine}_{voice}_{settings.speech_rate}"
CacheContent(text, eng, voice, rate) ==
    text \o <<"_">> \o Chars(eng) \o <<"_">> \o Chars(voice) \o <<"_">> \o Chars(rate)

\* _get_cache_key, lines 102-105
_get_cache_key(text, eng, voice) == Md5(CacheContent(text, eng, voice, speech_rate))

RECURSIVE Digits(_)
\* the decimal digits of n as character codes ('0' is 48)
Digits(n) == IF n < 10 THEN <<48 + n>> ELSE Append(Digits(n \div 10), 48 + (n % 10))

RECURSIVE ZeroPad(_, _)
ZeroPad(s, w) == IF Len(s) >= w THEN s ELSE ZeroPad(<<48>> \o s, w)

\* f"{index:03d}": at least PadWidth digits, more when the index needs them
FormatIndex(index) == ZeroPad(Digits(index), PadWidth)

\* os.path.join(output_dir, f"{index:03d}_{safe_title}.mp3") as character codes;
\* '_' is 95, the sanitized title is the letter 'T' (84) for every chapter
OutputPath(index) == FormatIndex(index) \o <<95, 84>>

RECURSIVE LexLess(_, _)
\* Python's str ordering: by code point, a proper prefix first
LexLess(s, t) ==
    IF s = <<>> THEN t # <<>>
    ELSE IF t = <<>> THEN FALSE
    ELSE IF Head(s) # Head(t) THEN Head(s) < Head(t)
    ELSE LexLess(Tail(s), Tail(t))

\* sorted(audio_files)
SortPaths(paths) == SortSeq(paths, LexLess)

-----------------------------------------------------------------------------
(* Construction: TTSConverter.__init__ and _init_engines *)

\* the engine and the loaded flag after __init__(engine=req), given whether the
\* TTS package imports (COQUI_AVAILABLE) and whether initializing the requested
\* engine succeeds; raised: __init__ raised (line 100) and built no converter
Construct(req, coquiAvailable, initOk) ==
    LET e1 == IF req \notin supported_engines THEN "edge-tts" ELSE req
    IN  IF e1 = "coqui-xtts" /\ coquiAvailable
        THEN IF initOk THEN [engine |-> "coqui-xtts", coqui_tts |-> TRUE, raised |-> FALSE]
             ELSE [engine |-> "edge-tts", coqui_tts |-> FALSE, raised |-> FALSE]
        ELSE [engine |-> e1, coqui_tts |-> FALSE,
              raised |-> (e1 = "pyttsx3" /\ ~initOk)]

RequestedEngines == supported_engines \cup {"unknown"}

\* an input list of 10^PadWidth + 1 chapters is explored with every chapter
\* but the last two empty (an empty chapter returns False at line 120 without
\* suspending, so its task never interleaves with another)
LongLen == 10 ^ PadWidth + 1

\* the chapters whose tasks the model tracks
Live(n) == IF n <= MaxChapters THEN 0 .. (n - 1) ELSE {n - 2, n - 1}

MergeIdle == [stage |-> "idle"]
JobIdle == [caller |-> "none"]
FnIdle == [name |-> "none"]

\* one global ceiling for every engine
MaxConcurrentGlobal(eng) == max_concurrent_requests

\* line 172: max_concurrent = 2 if self.engine == 'coqui-xtts' else
\* settings.max_concurrent_requests
MaxConcurrent(eng) ==
    IF eng = "coqui-xtts" THEN CoquiCeiling ELSE max_concurrent_requests

\* the converter after TTSConverter(engine=req) and the call
\* convert_chapters_to_audio(chapters, output_dir), the cache still empty;
\* output_dir may exist already (line 168: exist_ok=True) and then hold a file
\* of an earlier run, explored at the first tracked chapter's path
InitConverter ==
    /\ \E req \in RequestedEngines, avail \in BOOLEAN, ok \in BOOLEAN :
          /\ ~Construct(req, avail, ok).raised
          /\ engine = Construct(req, avail, ok).engine
          /\ coqui_tts = Construct(req, avail, ok).coqui_tts
    /\ cache_enabled \in BOOLEAN
    /\ cache = <<>>
    /\ numChapters \in (0 .. MaxChapters) \cup {LongLen}
    /\ chapters \in [Live(numChapters) -> RawTexts]
    /\ pc = [i \in Live(numChapters) |-> "waiting"]
    /\ permits = MaxConcurrent(engine)
    /\ \E stale \in {{}, {i \in Live(numChapters) : \A j \in Live(numChapters) : i <= j}} :
          files = [i \in Live(numChapters) |-> IF i \in stale THEN Stale ELSE NoFile]
    /\ buf = [i \in Live(numChapters) |-> NoFile]
    /\ attempts = [i \in Live(numChapters) |-> <<>>]
    /\ lookup = [i \in Live(numChapters) |-> "none"]
    /\ priorOk = [i \in Live(numChapters) |-> {}]
    /\ stored = [i \in Live(numChapters) |-> FALSE]
    /\ main = "running"
    /\ returned = <<>>
    /\ merge = MergeIdle
    /\ job = JobIdle
    /\ fn = FnIdle

\* the settings of an environment that configures nothing
DefaultConfig == [cache_max_size |-> cache_max_size, cache_ttl |-> cache_ttl]

Init == config = DefaultConfig /\ InitConverter

\* the same call in an environment that sets CACHE_MAX_SIZE (and CACHE_TTL)
\* to a small number, with the cache in use
InitCache ==
    /\ config \in [cache_max_size : 1 .. MaxCacheSetting, cache_ttl : {cache_ttl}]
    /\ InitConverter
    /\ cache_enabled

-----------------------------------------------------------------------------
(* convert_single_chapter and convert_text_to_audio, one action per stretch *)
(* between two suspension points of the task                                *)

Tasks == DOMAIN pc
Done == {"ok", "failed", "exc"}

\* a key that also depends on where the chapter's audio is written
CacheKeyOfPerChapter(i) ==
    _get_cache_key(_prepare_text_for_tts(chapters[i]) \o OutputPath(i), engine, default_voice)

CacheKeyOf(i) == _get_cache_key(_prepare_text_for_tts(chapters[i]), engine, default_voice)

\* the engines whose adapter reports os.path.exists(output_path) (lines 224, 274)
\* instead of True (lines 243, 254)
ExistsChecked(eng) == eng \in {"coqui-xtts", "pyttsx3"}

\* lines 176-134: acquire the semaphore, derive the path, prepare the text,
\* look the key up; runs to the first suspension point
Start(i) ==
    /\ main = "running"
    /\ pc[i] = "waiting"
    /\ permits > 0
    /\ \A j \in Tasks : j < i => pc[j] # "waiting"
    /\ priorOk' = [priorOk EXCEPT ![i] = {j \in Tasks : pc[j] = "ok"}]
    /\ IF chapters[i] = NoText
       THEN \* line 184: chapter['text'] raises KeyError; the permit is released
            /\ pc' = [pc EXCEPT ![i] = "exc"]
            /\ UNCHANGED <<permits, buf, lookup>>
       ELSE IF _prepare_text_for_tts(chapters[i]) = <<>>
       THEN \* lines 118-120: empty text, return False
            /\ pc' = [pc EXCEPT ![i] = "failed"]
            /\ UNCHANGED <<permits, buf, lookup>>
       ELSE IF ~cache_enabled
       THEN /\ pc' = [pc EXCEPT ![i] = "synth"]
            /\ permits' = permits - 1
            /\ UNCHANGED <<buf, lookup>>
       ELSE \E containsFault \in BOOLEAN, readFault \in BOOLEAN :
            IF containsFault
            THEN \* line 125: `cache_key in self.cache` raises, outside any try
                 /\ ~readFault
                 /\ pc' = [pc EXCEPT ![i] = "exc"]
                 /\ lookup' = [lookup EXCEPT ![i] = "contains_raised"]
                 /\ UNCHANGED <<permits, buf>>
            ELSE IF CacheKeyOf(i) \notin DOMAIN cache
            THEN /\ ~readFault
                 /\ pc' = [pc EXCEPT ![i] = "synth"]
                 /\ lookup' = [lookup EXCEPT ![i] = "miss"]
                 /\ permits' = permits - 1
                 /\ UNCHANGED buf
            ELSE IF readFault
            THEN \* line 128 raises inside the try of line 127: warning, go on
                 /\ pc' = [pc EXCEPT ![i] = "synth"]
                 /\ lookup' = [lookup EXCEPT ![i] = "read_raised"]
                 /\ permits' = permits - 1
                 /\ UNCHANGED buf
            ELSE /\ pc' = [pc EXCEPT ![i] = "hit"]
                 /\ lookup' = [lookup EXCEPT ![i] = "hit"]
                 /\ buf' = [buf EXCEPT ![i] = cache[CacheKeyOf(i)]]
                 /\ permits' = permits - 1
    /\ UNCHANGED <<fn, job, config, engine, coqui_tts, cache_enabled, cache, numChapters, chapters,
                   files, attempts, stored, main, returned, merge>>

\* a hit that returns True without writing output_path
HitWriteNothing(i) ==
    /\ pc[i] = "hit"
    /\ pc' = [pc EXCEPT ![i] = "ok"]
    /\ permits' = permits + 1
    /\ UNCHANGED <<fn, job, config, engine, coqui_tts, cache_enabled, cache, numChapters, chapters, files,
                   buf, attempts, lookup, priorOk, stored, main, returned, merge>>

\* lines 129-131: write the cached bytes to output_path, return True
HitWrite(i) ==
    /\ pc[i] = "hit"
    /\ files' = [files EXCEPT ![i] = buf[i]]
    /\ pc' = [pc EXCEPT ![i] = "ok"]
    /\ permits' = permits + 1
    /\ UNCHANGED <<fn, job, config, engine, coqui_tts, cache_enabled, cache, numChapters, chapters,
                   buf, attempts, lookup, priorOk, stored, main, returned, merge>>

\* what an engine call may do to the file at output_path:
\*   "ok"      it writes the complete audio and returns
\*   "raise"   it raises, leaving the file as it was or partly written
\*   "nowrite" it returns without having written a file
\*   "hang"    it never completes (no call is made under a timeout)
EngineOutcomes(eng) ==
    IF ExistsChecked(eng) THEN {"ok", "raise", "nowrite", "hang"}
    ELSE {"ok", "raise", "hang"}

\* the adapter's return value (lines 224, 243, 254, 274 and the except branches)
AdapterSuccess(eng, outcome, fileAfter) ==
    IF outcome = "raise" THEN FALSE
    ELSE IF ExistsChecked(eng) THEN fileAfter # NoFile
    ELSE TRUE

\* a task that gives its permit back only when the engine succeeded
AfterEngineKeepingPermit(i, success) ==
    IF success /\ cache_enabled
    THEN /\ pc' = [pc EXCEPT ![i] = "store"]
         /\ UNCHANGED permits
    ELSE /\ pc' = [pc EXCEPT ![i] = IF success THEN "ok" ELSE "failed"]
         /\ permits' = IF success THEN permits + 1 ELSE permits

\* lines 135-148: no fallback engine is tried; the result is the adapter's
AfterEngine(i, success) ==
    IF success /\ cache_enabled
    THEN /\ pc' = [pc EXCEPT ![i] = "store"]
         /\ UNCHANGED permits
    ELSE /\ pc' = [pc EXCEPT ![i] = IF success THEN "ok" ELSE "failed"]
         /\ permits' = permits + 1

\* lines 136-145 with the adapter of the active engine (lines 207-278)
Synth(i) ==
    /\ pc[i] = "synth"
    /\ IF engine = "coqui-xtts" /\ ~coqui_tts
       THEN \* line 211: "Coqui TTS not initialized", no engine is invoked
            /\ AfterEngine(i, FALSE)
            /\ UNCHANGED <<files, attempts>>
       ELSE \E outcome \in EngineOutcomes(engine), torn \in BOOLEAN :
            LET fileAfter ==
                    IF outcome = "ok"
                    THEN Audio(_prepare_text_for_tts(chapters[i]), i)
                    ELSE IF outcome = "raise" /\ torn THEN Partial
                    ELSE files[i]
            IN  /\ outcome # "raise" => ~torn
                /\ files' = [files EXCEPT ![i] = fileAfter]
                /\ attempts' = [attempts EXCEPT ![i] = Append(@, engine)]
                /\ IF outcome = "hang"
                   THEN \* the task stays in the call and keeps its permit
                        /\ pc' = [pc EXCEPT ![i] = "hung"]
                        /\ UNCHANGED permits
                   ELSE AfterEngine(i, AdapterSuccess(engine, outcome, fileAfter))
    /\ UNCHANGED <<fn, job, config, engine, coqui_tts, cache_enabled, cache, numChapters, chapters,
                   buf, lookup, priorOk, stored, main, returned, merge>>

\* lines 149-157: read output_path back and store it under the key; a store
\* that raises is logged and ignored; return True
Store(i) ==
    /\ pc[i] = "store"
    /\ \E storeFault \in BOOLEAN :
          /\ cache' = IF storeFault THEN cache
                      ELSE (CacheKeyOf(i) :> files[i]) @@ cache
          /\ stored' = [stored EXCEPT ![i] = ~storeFault]
    /\ pc' = [pc EXCEPT ![i] = "ok"]
    /\ permits' = permits + 1
    /\ UNCHANGED <<fn, job, config, engine, coqui_tts, cache_enabled, numChapters, chapters, files,
                   buf, attempts, lookup, priorOk, main, returned, merge>>

RECURSIVE InTaskOrder(_)
\* gather returns its results in the order of the tasks (line 195: enumerate)
InTaskOrder(S) ==
    IF S = {} THEN <<>>
    ELSE LET first == CHOOSE x \in S : \A y \in S : x <= y
         IN  <<first>> \o InTaskOrder(S \ {first})

\* lines 199-201: the str results among them; an untracked chapter is empty
\* and its result is None
OkPaths ==
    LET ok == InTaskOrder({i \in Tasks : pc[i] = "ok"})
    IN  [k \in 1 .. Len(ok) |-> OutputPath(ok[k])]

\* gather without return_exceptions
return_exceptions_off == FALSE

\* line 196: asyncio.gather(*tasks, return_exceptions=True)
return_exceptions == TRUE

\* lines 196-205: gather ends when every task has, or, without
\* return_exceptions, as soon as one task raises (the exception then leaves
\* convert_chapters_to_audio); otherwise the exceptions are logged and the
\* paths filtered and sorted
Gather ==
    /\ main = "running"
    /\ IF return_exceptions
       THEN \A i \in Tasks : pc[i] \in Done
       ELSE (\A i \in Tasks : pc[i] \in Done) \/ (\E i \in Tasks : pc[i] = "exc")
    /\ IF ~return_exceptions /\ (\E i \in Tasks : pc[i] = "exc")
       THEN /\ main' = "raised"
            /\ UNCHANGED returned
       ELSE /\ main' = "returned"
            /\ returned' = SortPaths(OkPaths)
    /\ UNCHANGED <<fn, job, config, engine, coqui_tts, cache_enabled, cache, numChapters, chapters, pc,
                   permits, files, buf, attempts, lookup, priorOk, stored, merge>>

Next ==
    \/ \E i \in Tasks : Start(i)
    \/ \E i \in Tasks : HitWrite(i)
    \/ \E i \in Tasks : Synth(i)
    \/ \E i \in Tasks : Store(i)
    \/ Gather

Spec == Init /\ [][Next]_vars

SpecCache == InitCache /\ [][Next]_vars

-----------------------------------------------------------------------------
(* Properties of convert_chapters_to_audio and convert_text_to_audio *)

Range(seq) == {seq[k] : k \in 1 .. Len(seq)}
Active == {i \in Tasks : pc[i] \in {"hit", "synth", "store", "hung"}}
Prepared(i) == _prepare_text_for_tts(chapters[i])
SameRequest(i, j) ==
    /\ chapters[i] # NoText /\ chapters[j] # NoText
    /\ Prepared(i) = Prepared(j) /\ Prepared(i) # <<>>

\* C1: for every list of chapters, of any length, the returned list holds the
\* converted chapters' paths in ascending chapter index order
C1_ReturnedInIndexOrder ==
    main = "returned" =>
        /\ Range(returned) = {OutputPath(i) : i \in {t \in Tasks : pc[t] = "ok"}}
        /\ \A i, j \in Tasks :
              (pc[i] = "ok" /\ pc[j] = "ok" /\ i < j) =>
                  \E a, b \in 1 .. Len(returned) :
                      a < b /\ returned[a] = OutputPath(i) /\ returned[b] = OutputPath(j)

StoredBefore(j) == {i \in priorOk[j] : SameRequest(i, j) /\ stored[i]}

NextEngine(eng) ==
    IF \E k \in 1 .. (Len(EnginePriority) - 1) : EnginePriority[k] = eng
    THEN EnginePriority[(CHOOSE k \in 1 .. Len(EnginePriority) : EnginePriority[k] = eng) + 1]
    ELSE "none"

\* C4: a chapter whose active engine was invoked and failed is marked failed
\* only after one retry on the next-priority engine has failed too
C4_FallbackBeforeFailure ==
    \A i \in Tasks :
        (pc[i] = "failed" /\ attempts[i] # <<>> /\ NextEngine(engine) # "none") =>
            /\ Len(attempts[i]) = 2
            /\ attempts[i][2] = NextEngine(engine)

\* C5: a failure or exception in one chapter aborts no sibling and never makes
\* convert_chapters_to_audio raise: it returns only when every task has ended,
\* and every chapter whose synthesis succeeded is in the returned list
C5_SiblingsUnaffected ==
    /\ main # "raised"
    /\ main = "returned" =>
          /\ \A i \in Tasks : pc[i] \in Done
          /\ \A i \in Tasks : pc[i] = "ok" => OutputPath(i) \in Range(returned)

\* one chapter raised, one failed, a third converted and was returned
C5_Witness ==
    /\ main = "returned"
    /\ \E i, j, k \in Tasks :
          /\ pc[i] = "exc" /\ pc[j] = "failed" /\ attempts[j] # <<>>
          /\ pc[k] = "ok" /\ OutputPath(k) \in Range(returned)

\* C6: the returned list has exactly one entry per input chapter
C6_OneResultPerChapter ==
    main = "returned" => Len(returned) = numChapters

\* C7: no exception raised by a cache lookup or store leaves
\* convert_text_to_audio (a chapter without text is the only other source of
\* an exception in a chapter task)
C7_CacheFaultsNeverPropagate ==
    \A i \in Tasks : pc[i] = "exc" => chapters[i] = NoText

\* C8: every cache entry is the complete audio that a synthesis of that
\* key's text wrote
C8_CacheHoldsOwnCompleteAudio ==
    \A key \in DOMAIN cache :
        \E i \in Tasks :
            /\ chapters[i] # NoText
            /\ key = CacheKeyOf(i)
            /\ cache[key] = Audio(Prepared(i), i)

\* C13: the engine a constructed converter uses is available, so a chapter
\* with text to speak fails only after an engine has really been invoked for it
C13_UnavailableEngineReplaced ==
    \A i \in Tasks :
        (pc[i] = "failed" /\ chapters[i] # NoText /\ Prepared(i) # <<>>) =>
            attempts[i] # <<>>

\* C14: an engine call that does not complete is ended as a failure, so
\* convert_chapters_to_audio can always take a further step until it has
\* returned
C14_ReturnsDespiteHungCall ==
    main = "running" => ENABLED Next

C16_CacheWithinMaxSize ==
    Cardinality(DOMAIN cache) <= config.cache_max_size

\* C24: within one call the chapters' output paths are pairwise distinct, and
\* what the cache holds under a chapter's key is audio synthesized for that
\* chapter's own text, never other audio or a file left at the path
C24_OwnPathOwnAudio ==
    /\ \A i, j \in Tasks : i # j => OutputPath(i) # OutputPath(j)
    /\ \A i \in Tasks :
          (chapters[i] # NoText /\ CacheKeyOf(i) \in DOMAIN cache) =>
              \E call \in Tasks : cache[CacheKeyOf(i)] = Audio(Prepared(i), call)

\* the number of tasks at one of the given positions
Count(positions) == Cardinality({i \in Tasks : pc[i] \in positions})

\* the steps the call has still to take: three for a task that waits, two for
\* one at its cache hit or its engine call, one for one at its store, and the
\* return
StepsLeft ==
    3 * Count({"waiting"}) + 2 * Count({"hit", "synth"}) + Count({"store"})
        + (IF main = "running" THEN 1 ELSE 0)

NoHungCall == \A i \in Tasks : pc[i] # "hung"

\* a step of the call is enabled: a task inside the semaphore can go on, a
\* waiting task can take a permit, or every task has ended and gather returns
CanStep ==
    \/ \E i \in Tasks : pc[i] \in {"hit", "synth", "store"}
    \/ \E i \in Tasks : pc[i] = "waiting" /\ permits > 0
    \/ \A i \in Tasks : pc[i] \in Done

\* C25: when every engine invocation terminates the call terminates, having
\* attempted every chapter exactly once: every permit taken is held by a task
\* inside the semaphore and is given back when the task ends, however it ends,
\* so while the call has not returned some task or the call itself can take a
\* step, and every step brings the call nearer to its end
C25_TerminatesWithEveryChapterAttempted ==
    /\ [](NoHungCall =>
            /\ permits + Cardinality(Active) = MaxConcurrent(engine)
            /\ main = "running" => CanStep
            /\ main = "returned" =>
                  \A i \in Tasks : pc[i] \in Done /\ Len(attempts[i]) <= 1)
    /\ [][StepsLeft' < StepsLeft]_vars

\* a call with more chapters than permits has returned, one task having
\* succeeded, one failed in its engine and one ended by an exception
C25_Witness ==
    /\ main = "returned"
    /\ Cardinality(Tasks) > MaxConcurrent(engine)
    /\ \E i, j, k \in Tasks :
          /\ pc[i] = "ok" /\ attempts[i] # <<>>
          /\ pc[j] = "failed" /\ attempts[j] # <<>>
          /\ pc[k] = "exc"

-----------------------------------------------------------------------------
(* AudioMerger.merge_audio_files: LOAD, NORMALIZE, EXPORT, TAG *)

\* files of every length 0..MaxFiles are merged
MaxFiles == 3
\* a loadable file holds 0..MaxDuration milliseconds of audio (len(audio))
MaxDuration == 1

\* settings.silence_duration, in seconds
silence_duration_s == 2
\* line 23: self.silence_duration = settings.silence_duration * 1000
silence_duration == silence_duration_s * 1000

\* what a listed path holds: nothing, bytes that do not decode, or audio of
\* some duration
Missing == [st |-> "missing", ms |-> 0]
Undecodable == [st |-> "undecodable", ms |-> 0]
AudioOf(ms) == [st |-> "audio", ms |-> ms]
FileStates == {Missing, Undecodable} \cup {AudioOf(ms) : ms \in 0 .. MaxDuration}

\* line 80: os.path.exists(audio_file)
Exists(f) == f.st # "missing"

\* a decoder that takes any bytes for audio
DecodesAnything(f) == TRUE

\* lines 87-91: AudioSegment.from_file(audio_file) does not raise
Decodes(f) == f.st = "audio"

\* the segment loaded from the k-th listed file
Clip(k, f) == [kind |-> "clip", src |-> k, ms |-> IF f.st = "audio" THEN f.ms ELSE 1]
\* line 77: AudioSegment.silent(duration=self.silence_duration)
Silence == [kind |-> "silence", src |-> 0, ms |-> silence_duration]

\* an Optional[AudioSegment]: None, or the segments of a track
None == [none |-> TRUE, segs |-> <<>>]
Track(segs) == [none |-> FALSE, segs |-> segs]

RECURSIVE Duration(_)
\* len(audio): the milliseconds of a track
Duration(track) ==
    IF track = <<>> THEN 0 ELSE Head(track).ms + Duration(Tail(track))

\* `not combined_audio` (line 50): None is falsy, and so is an AudioSegment of
\* length 0, since AudioSegment defines __len__ and no __bool__
Falsy(audio) == audio.none \/ Duration(audio.segs) = 0

\* the file an export or a tagging run leaves
AudioFile(track, normalized, tagged) == <<"audio", track, normalized, tagged>>
TrackOf(file) == file[2]
Tagged(file) == AudioFile(file[2], file[3], TRUE)

\* the answers of the two queries before either was called
NoInfo == [asked |-> FALSE, path |-> 0, ok |-> FALSE, ms |-> 0]
NoMarkers == [made |-> FALSE, list |-> <<>>]

MergeStart(list, metadata, ffmpeg) ==
    [stage |-> "begin", audio_files |-> list, i |-> 1, combined |-> None,
     normalized |-> FALSE, metadata |-> metadata, ffmpeg |-> ffmpeg,
     temp |-> NoFile, output |-> NoFile, result |-> "none", fault |-> FALSE,
     normOutcome |-> "none", tagOutcome |-> "none", info |-> NoInfo,
     markers |-> NoMarkers, stages |-> <<>>]

\* the converter at rest while a merge runs
ConverterIdle ==
    /\ config = DefaultConfig
    /\ engine = "edge-tts" /\ coqui_tts = FALSE /\ cache_enabled = TRUE
    /\ cache = <<>> /\ numChapters = 0 /\ chapters = <<>> /\ pc = <<>>
    /\ permits = MaxConcurrent("edge-tts") /\ files = <<>> /\ buf = <<>>
    /\ attempts = <<>> /\ lookup = <<>> /\ priorOk = <<>> /\ stored = <<>>
    /\ main = "returned" /\ returned = <<>>

\* a merger after AudioMerger() and the call merge_audio_files(audio_files,
\* output_path, metadata); output_path holds no file yet
InitMerge ==
    /\ ConverterIdle
    /\ \E n \in 0 .. MaxFiles : \E list \in [1 .. n -> FileStates] :
       \E metadata \in BOOLEAN, ffmpeg \in BOOLEAN :
          merge = MergeStart(list, metadata, ffmpeg)
    /\ job = JobIdle
    /\ fn = FnIdle

MergeReturn(value) == [merge EXCEPT !.stage = "done", !.result = value]

\* lines 40-48
MergeBegin ==
    /\ merge.stage = "begin"
    /\ merge' = IF merge.audio_files = <<>>
                THEN MergeReturn("False")
                ELSE [merge EXCEPT !.stage = "load", !.stages = Append(@, "LOAD")]
    /\ UNCHANGED <<convVars, job, fn>>

\* a combination that puts the pause in front of every chapter, the first too
CombineLeadingSilence(combined, audio) ==
    Track(combined.segs \o <<Silence, audio>>)

\* lines 92-97: the first loaded chapter starts the track, a later one is
\* appended after a pause
Combine(combined, audio) ==
    IF combined = None THEN Track(<<audio>>)
    ELSE Track(combined.segs \o <<Silence, audio>>)

\* lines 79-97: one iteration of the loop of _combine_audio_files
LoadFile ==
    /\ merge.stage = "load"
    /\ merge.i <= Len(merge.audio_files)
    /\ LET f == merge.audio_files[merge.i]
           audio == Clip(merge.i, f)
       IN  merge' =
             IF ~Exists(f) \/ ~Decodes(f)
             THEN [merge EXCEPT !.i = @ + 1]
             ELSE [merge EXCEPT !.i = @ + 1, !.combined = Combine(@, audio)]
    /\ UNCHANGED <<convVars, job, fn>>

\* lines 99 and 50-52: the loop is over, `if not combined_audio: return False`
CombineDone ==
    /\ merge.stage = "load"
    /\ merge.i > Len(merge.audio_files)
    /\ merge' = IF Falsy(merge.combined)
                THEN MergeReturn("False")
                ELSE [merge EXCEPT !.stage = "normalize"]
    /\ UNCHANGED <<convVars, job, fn>>

\* lines 55 and 105-123: a normalization that raises returns the audio as it was
\* a normalization whose failure ends the merge
AfterNormalizeFatal(raised) ==
    IF raised THEN [MergeReturn("False") EXCEPT !.normOutcome = "raised",
                                                !.stages = Append(@, "NORMALIZE")]
    ELSE [merge EXCEPT !.stage = "export", !.normalized = TRUE, !.normOutcome = "done",
                       !.stages = Append(@, "NORMALIZE")]

\* lines 107-123: the gain is applied, or the exception is logged and the
\* audio handed back as it came
AfterNormalize(raised) ==
    [merge EXCEPT !.stage = "export", !.normalized = ~raised,
                  !.normOutcome = IF raised THEN "raised" ELSE "done",
                  !.stages = Append(@, "NORMALIZE")]

Normalize ==
    /\ merge.stage = "normalize"
    /\ \E raised \in BOOLEAN : merge' = AfterNormalize(raised)
    /\ UNCHANGED <<convVars, job, fn>>

\* a merger that hands every export to ffmpeg
WantsTagAlways(m) == TRUE

\* line 141: `if metadata and self._is_ffmpeg_available()`
WantsTag(m) == m.metadata /\ m.ffmpeg

\* lines 125-150: export to output_path + ".temp"; then tag, or rename the
\* temporary file to output_path; an exception returns False
Export ==
    /\ merge.stage = "export"
    /\ \E exportRaised \in BOOLEAN, torn \in BOOLEAN, renameRaised \in BOOLEAN :
       LET exported == AudioFile(merge.combined.segs, merge.normalized, FALSE)
           entered == Append(merge.stages, "EXPORT")
       IN  IF exportRaised
           THEN /\ ~renameRaised
                /\ merge' = [MergeReturn("False") EXCEPT
                                !.temp = IF torn THEN Partial ELSE NoFile,
                                !.fault = TRUE, !.stages = entered]
           ELSE IF WantsTag(merge)
           THEN /\ ~torn /\ ~renameRaised
                /\ merge' = [merge EXCEPT !.stage = "tag", !.temp = exported,
                                          !.stages = entered]
           ELSE IF renameRaised
           THEN /\ ~torn
                /\ merge' = [MergeReturn("False") EXCEPT !.temp = exported, !.fault = TRUE,
                                                         !.tagOutcome = "skipped",
                                                         !.stages = entered]
           ELSE /\ ~torn
                /\ merge' = [MergeReturn("True") EXCEPT !.output = exported,
                                                        !.tagOutcome = "skipped",
                                                        !.stages = entered]
    /\ UNCHANGED <<convVars, job, fn>>

\* a tagging that gives the merge up when ffmpeg fails
AfterTaggingStrict(outcome, renameRaised) ==
    IF outcome = "ok"
    THEN [MergeReturn("True") EXCEPT !.output = Tagged(merge.temp), !.temp = NoFile,
                                    !.tagOutcome = outcome,
                                    !.stages = Append(@, "TAG")]
    ELSE [MergeReturn("False") EXCEPT !.tagOutcome = outcome,
                                    !.stages = Append(@, "TAG")]

\* a tagging that leaves the temporary file behind when ffmpeg succeeded
AfterTaggingKeepingTemp(outcome, renameRaised) ==
    IF outcome \in {"ok", "ok_remove_raised"}
    THEN [MergeReturn("True") EXCEPT !.output = Tagged(merge.temp),
                                    !.tagOutcome = outcome,
                                    !.stages = Append(@, "TAG")]
    ELSE IF renameRaised
    THEN [MergeReturn("False") EXCEPT !.fault = TRUE, !.tagOutcome = outcome,
                                    !.stages = Append(@, "TAG")]
    ELSE [MergeReturn("True") EXCEPT !.output = merge.temp, !.temp = NoFile,
                                    !.tagOutcome = outcome,
                                    !.stages = Append(@, "TAG")]

\* lines 193-213: the merge after ffmpeg ran (outcome "ok": return code 0,
\* "ok_remove_raised": return code 0 and os.remove of the temporary file
\* raised, "nonzero": another return code, "raise": subprocess.run raised) and
\* after the rename of the fallback, which may raise in its turn
AfterTagging(outcome, renameRaised) ==
    IF outcome = "ok"
    THEN [MergeReturn("True") EXCEPT !.output = Tagged(merge.temp), !.temp = NoFile,
                                    !.tagOutcome = outcome,
                                    !.stages = Append(@, "TAG")]
    ELSE IF renameRaised
    THEN [MergeReturn("False") EXCEPT
              !.output = IF outcome = "ok_remove_raised" THEN Tagged(merge.temp) ELSE @,
              !.fault = TRUE, !.tagOutcome = outcome,
              !.stages = Append(@, "TAG")]
    ELSE [MergeReturn("True") EXCEPT !.output = merge.temp, !.temp = NoFile,
                                    !.tagOutcome = outcome,
                                    !.stages = Append(@, "TAG")]

\* lines 162-213: ffmpeg copies the temporary file to output_path with the
\* tags; on a non-zero return code or an exception the temporary file is
\* renamed to output_path instead
Tag ==
    /\ merge.stage = "tag"
    /\ \E outcome \in {"ok", "ok_remove_raised", "nonzero", "raise"},
          renameRaised \in BOOLEAN :
          /\ outcome = "ok" => ~renameRaised
          /\ merge' = AfterTagging(outcome, renameRaised)
    /\ UNCHANGED <<convVars, job, fn>>

\* the file at a path the queries may be given: 0 is output_path, k >= 1 is
\* audio_files[k]
Loads(path) ==
    IF path = 0 THEN merge.output \notin {NoFile, Partial}
    ELSE Decodes(merge.audio_files[path])

\* len(AudioSegment.from_file(path)), in milliseconds
LengthOf(path) ==
    IF path = 0 THEN Duration(TrackOf(merge.output))
    ELSE merge.audio_files[path].ms

\* lines 237-255: the dict of get_audio_info, by its duration; {} when the
\* file does not load
AudioInfo(path) ==
    IF Loads(path) THEN [asked |-> TRUE, path |-> path, ok |-> TRUE, ms |-> LengthOf(path)]
    ELSE [asked |-> TRUE, path |-> path, ok |-> FALSE, ms |-> 0]

\* a get_audio_info that writes the file it read back normalized
GetAudioInfoRewriting ==
    /\ merge.stage = "done"
    /\ \E path \in 0 .. Len(merge.audio_files) :
          merge' = [merge EXCEPT !.info = AudioInfo(path),
                                 !.output = IF path = 0 /\ Loads(path)
                                            THEN AudioFile(@[2], TRUE, @[4]) ELSE @]
    /\ UNCHANGED <<convVars, job, fn>>

\* lines 235-255: get_audio_info on output_path or on a listed file, after a
\* merge
GetAudioInfo ==
    /\ merge.stage = "done"
    /\ \E path \in 0 .. Len(merge.audio_files) :
          merge' = [merge EXCEPT !.info = AudioInfo(path)]
    /\ UNCHANGED <<convVars, job, fn>>

RECURSIVE MarkersPausingForSkipped(_, _, _)
\* markers that leave a pause for a file that did not load as well
MarkersPausingForSkipped(list, k, current_time) ==
    IF k > Len(list) THEN <<>>
    ELSE IF Decodes(list[k])
    THEN <<[title |-> k, start_time |-> current_time,
            end_time |-> current_time + list[k].ms, duration |-> list[k].ms]>>
         \o MarkersPausingForSkipped(list, k + 1,
                                     current_time + list[k].ms + silence_duration)
    ELSE MarkersPausingForSkipped(list, k + 1, current_time + silence_duration)

RECURSIVE Markers(_, _, _)
\* lines 263-283 from audio_files[k] on: a file that loads gets a marker from
\* current_time on and moves current_time past it and one pause; a file that
\* does not load is passed over (times in milliseconds; the title is
\* f"Chapter {k}", chapter_titles being None)
Markers(list, k, current_time) ==
    IF k > Len(list) THEN <<>>
    ELSE IF Decodes(list[k])
    THEN <<[title |-> k, start_time |-> current_time,
            end_time |-> current_time + list[k].ms, duration |-> list[k].ms]>>
         \o Markers(list, k + 1, current_time + list[k].ms + silence_duration)
    ELSE Markers(list, k + 1, current_time)

\* lines 257-283: create_chapter_markers on the merged list, after a merge
CreateChapterMarkers ==
    /\ merge.stage = "done"
    /\ merge' = [merge EXCEPT !.markers = [made |-> TRUE,
                                           list |-> Markers(merge.audio_files, 1, 0)]]
    /\ UNCHANGED <<convVars, job, fn>>

NextMerge ==
    \/ MergeBegin
    \/ LoadFile
    \/ CombineDone
    \/ Normalize
    \/ Export
    \/ Tag
    \/ GetAudioInfo
    \/ CreateChapterMarkers

SpecMerge == InitMerge /\ [][NextMerge]_vars

-----------------------------------------------------------------------------
(* Properties of merge_audio_files *)

Loadable(list) == {k \in 1 .. Len(list) : list[k].st = "audio"}

\* C9: with an empty list, or with every listed file missing or undecodable,
\* merge_audio_files returns False and writes no file at output_path
C9_NothingLoadableFails ==
    (merge.stage = "done" /\ Loadable(merge.audio_files) = {}) =>
        /\ merge.result = "False"
        /\ merge.output = NoFile

\* a list of a missing and an undecodable file has been refused
C9_Witness ==
    /\ merge.stage = "done" /\ merge.result = "False"
    /\ \E k, l \in 1 .. Len(merge.audio_files) :
          merge.audio_files[k] = Missing /\ merge.audio_files[l] = Undecodable

RECURSIVE ClipsFrom(_, _)
\* the loadable files of list from position k on, each as its clip
ClipsFrom(list, k) ==
    IF k > Len(list) THEN <<>>
    ELSE IF list[k].st = "audio"
         THEN <<[kind |-> "clip", src |-> k, ms |-> list[k].ms]>> \o ClipsFrom(list, k + 1)
         ELSE ClipsFrom(list, k + 1)

\* the clips of a track, its silences left out
ClipsOf(track) == SelectSeq(track, LAMBDA seg : seg.kind = "clip")

\* C10: provided at least one listed file loads (and neither the export nor a
\* rename raises), merge_audio_files succeeds and the merged track consists of
\* exactly the loadable files in their given order
C10_SkipsUnloadable ==
    (merge.stage = "done" /\ ~merge.fault /\ Loadable(merge.audio_files) # {}) =>
        /\ merge.result = "True"
        /\ ClipsOf(TrackOf(merge.output)) = ClipsFrom(merge.audio_files, 1)

RECURSIVE SumMs(_, _)
\* the durations of the files of list at the positions S, added up
SumMs(list, S) ==
    IF S = {} THEN 0
    ELSE LET k == CHOOSE x \in S : TRUE IN list[k].ms + SumMs(list, S \ {k})

\* the listed files that _combine_audio_files has loaded so far
LoadedSoFar == {k \in Loadable(merge.audio_files) : k < merge.i}

\* a track of chapters with one pause between each two neighbours and none
\* at either end
PausesOnlyBetween(segs) ==
    /\ Len(segs) % 2 = 1
    /\ \A n \in 1 .. Len(segs) :
          IF n % 2 = 1 THEN segs[n].kind = "clip" ELSE segs[n] = Silence

\* C11: once k >= 1 listed files have loaded, the merged track lasts the sum
\* of their durations plus (k - 1) pauses of silence_duration, the pauses lie
\* only between two loaded chapters, and a successful merge writes a track of
\* that duration
C11_DurationWithPauses ==
    (merge.stage # "idle" /\ LoadedSoFar # {}) =>
        /\ ~merge.combined.none
        /\ Duration(merge.combined.segs) =
              SumMs(merge.audio_files, LoadedSoFar)
                + (Cardinality(LoadedSoFar) - 1) * silence_duration
        /\ PausesOnlyBetween(merge.combined.segs)
        /\ merge.result = "True" =>
              Duration(TrackOf(merge.output)) = Duration(merge.combined.segs)

\* two chapters around a file that was skipped have been merged with one pause
C11_Witness ==
    /\ merge.stage = "done" /\ merge.result = "True"
    /\ Len(merge.audio_files) = 3
    /\ merge.audio_files[1] = AudioOf(1)
    /\ ~Decodes(merge.audio_files[2])
    /\ merge.audio_files[3] = AudioOf(1)
    /\ Duration(TrackOf(merge.output)) = 2 + silence_duration

\* the file that audio.export writes for the combined track
Exported == AudioFile(merge.combined.segs, merge.normalized, FALSE)

\* the tagging did not take place or did not succeed
TaggingFailed == merge.tagOutcome \in {"skipped", "nonzero", "raise"}

FilesIn(m) == <<m.audio_files, m.temp, m.output>>

\* C17: get_audio_info and create_chapter_markers, the only steps taken once
\* merge_audio_files has returned, leave every audio file as it was, whether
\* the file they are given loads or not
C17_QueriesReadOnly ==
    [][(merge.stage = "done" /\ merge'.stage = "done") =>
           FilesIn(merge') = FilesIn(merge)]_vars

\* after a successful merge get_audio_info has failed on a listed file that
\* does not load, markers have been made, and the output is what was exported
C17_Witness ==
    /\ merge.stage = "done" /\ merge.result = "True"
    /\ merge.info.asked /\ ~merge.info.ok /\ merge.info.path # 0
    /\ merge.markers.made /\ merge.markers.list # <<>>
    /\ TrackOf(merge.output) = merge.combined.segs

\* C19: a merge whose normalization was attempted ends the same way whether
\* the normalization raised or not: unless the export or a rename raises it
\* returns True with the merged track at output_path, un-normalized when the
\* normalization raised
C19_NormalizeFailureNonFatal ==
    (merge.stage = "done" /\ merge.normOutcome # "none" /\ ~merge.fault) =>
        /\ merge.result = "True"
        /\ merge.output = AudioFile(merge.combined.segs, merge.normOutcome = "done",
                                    merge.tagOutcome = "ok")

\* a merge has succeeded with the audio as it was before a normalization
\* that raised
C19_Witness ==
    /\ merge.stage = "done" /\ merge.normOutcome = "raised"
    /\ merge.result = "True"
    /\ merge.output = AudioFile(merge.combined.segs, FALSE, FALSE)

\* the stages in the order of the state machine
StageOrder == <<"LOAD", "NORMALIZE", "EXPORT", "TAG">>

\* C20 as stated: every successful merge has passed through LOAD, NORMALIZE,
\* EXPORT and TAG, in that order and each once
C20_AllFourStages ==
    merge.result = "True" => merge.stages = StageOrder

\* C20: the stages a merge has entered are always a beginning of LOAD,
\* NORMALIZE, EXPORT, TAG (in that order, each once, one after the other); a
\* successful merge has passed through LOAD, NORMALIZE and EXPORT, and through
\* TAG after them exactly when metadata was given and ffmpeg is available
C20_StagesInOrder ==
    /\ merge.stage # "idle" =>
          /\ Len(merge.stages) <= Len(StageOrder)
          /\ merge.stages = SubSeq(StageOrder, 1, Len(merge.stages))
    /\ merge.result = "True" =>
          merge.stages = IF merge.metadata /\ merge.ffmpeg
                         THEN StageOrder
                         ELSE SubSeq(StageOrder, 1, 3)

\* a merge with metadata and ffmpeg has succeeded after all four stages
C20_Witness ==
    /\ merge.stage = "done" /\ merge.result = "True"
    /\ merge.metadata /\ merge.ffmpeg
    /\ merge.stages = StageOrder

\* where the segment at position p of a track begins, in milliseconds
OffsetOf(segs, p) == Duration(SubSeq(segs, 1, p - 1))

\* the positions of the chapters in a track
ClipPositions(segs) == {p \in 1 .. Len(segs) : segs[p].kind = "clip"}

\* C21: the markers made for a list are, in list order, one per loadable
\* file, each from the offset at which the merged track of the same list
\* holds that file to the offset at which the file ends there; they do not
\* overlap and each begins one pause of silence_duration after the one before
C21_MarkersMatchTrack ==
    (merge.stage = "done" /\ merge.markers.made) =>
        LET ms == merge.markers.list
            segs == merge.combined.segs
        IN  /\ Len(ms) = Cardinality(ClipPositions(segs))
            /\ \A n \in 1 .. Len(ms) :
                  /\ 2 * n - 1 \in ClipPositions(segs)
                  /\ ms[n].title = segs[2 * n - 1].src
                  /\ ms[n].start_time = OffsetOf(segs, 2 * n - 1)
                  /\ ms[n].end_time = OffsetOf(segs, 2 * n)
            /\ \A n \in 1 .. Len(ms) - 1 :
                  /\ ms[n].title < ms[n + 1].title
                  /\ ms[n + 1].start_time = ms[n].end_time + silence_duration

\* markers have been made for two chapters around a file that was skipped:
\* the second begins where the merged track holds it
C21_Witness ==
    /\ merge.stage = "done" /\ merge.markers.made
    /\ Len(merge.audio_files) = 3
    /\ ~Decodes(merge.audio_files[2])
    /\ Len(merge.markers.list) = 2
    /\ merge.markers.list[2].title = 3
    /\ merge.markers.list[2].start_time = 1 + silence_duration
    /\ merge.markers.list[2].start_time = OffsetOf(merge.combined.segs, 3)

\* C27: whenever merge_audio_files returns True a file exists at output_path
\* and output_path + '.temp' does not, whichever way export and tagging went
C27_TrueLeavesOutputAndNoTemp ==
    (merge.stage = "done" /\ merge.result = "True") =>
        /\ merge.output # NoFile
        /\ merge.temp = NoFile

\* ffmpeg succeeded, the removal of the temporary file raised and the fallback
\* renamed it onto output_path
C27_Witness ==
    /\ merge.stage = "done" /\ merge.result = "True"
    /\ merge.tagOutcome = "ok_remove_raised"
    /\ merge.output = Exported /\ merge.temp = NoFile

-----------------------------------------------------------------------------
(* Conversion jobs: the Celery task convert_book_to_audiobook                *)
(* (backend/app/tasks/conversion_tasks.py) with the Book and ConversionJob   *)
(* rows it updates, and convert_book of the Streamlit page (app.py) with     *)
(* what it shows                                                             *)

\* a job of the given caller before its first step: the Book row as uploaded
\* (or absent), the ConversionJob row pending, no audio written, nothing
\* reported
JobStart(caller, book, voice, speed, use_ai) ==
    [caller |-> caller, step |-> "start", book |-> book, status |-> "pending",
     progress |-> 0, voice |-> voice, speed |-> speed, use_ai |-> use_ai,
     text |-> "none", audio |-> "none", outcome |-> "none"]

InitJob ==
    /\ ConverterIdle
    /\ merge = MergeIdle
    /\ fn = FnIdle
    /\ \/ \E book \in {"uploaded", "absent"}, voice \in {"default", "v"},
            speed \in {"slow", "normal", "fast"} :
              job = JobStart("celery", book, voice, speed, TRUE)
       \/ \E use_ai \in BOOLEAN :
              job = JobStart("streamlit", "absent", "default", "normal", use_ai)

\* conversion_tasks.py lines 194-198: mark_job_failed, mark_book_failed (a
\* no-op without a Book row) and re-raise
TaskFail(j) ==
    [j EXCEPT !.step = "done", !.status = "failure",
              !.book = IF @ = "absent" THEN @ ELSE "failed",
              !.outcome = "raised"]

\* conversion_tasks.py lines 39-48
TaskStart ==
    /\ job.caller = "celery" /\ job.step = "start"
    /\ job' = IF job.book = "absent"
              THEN TaskFail(job)
              ELSE [job EXCEPT !.step = "extract", !.progress = 10,
                               !.book = "extracting_text"]
    /\ UNCHANGED <<convVars, merge, fn>>

\* conversion_tasks.py lines 60-71: the extraction returns text, returns
\* fewer than 10 characters, or raises
TaskExtract ==
    /\ job.caller = "celery" /\ job.step = "extract"
    /\ \E extracted \in {"text", "short", "raise"} :
          job' = IF extracted = "text"
                 THEN [job EXCEPT !.step = "process", !.progress = 30,
                                  !.book = "text_extracted", !.text = "original"]
                 ELSE TaskFail(job)
    /\ UNCHANGED <<convVars, merge, fn>>

\* conversion_tasks.py lines 74-101: a failing AI enhancement keeps the
\* original text
TaskProcess ==
    /\ job.caller = "celery" /\ job.step = "process"
    /\ \E enhanced \in BOOLEAN :
          job' = [job EXCEPT !.step = "synthesize", !.progress = 50,
                             !.book = "text_processed",
                             !.text = IF enhanced THEN "enhanced" ELSE "original"]
    /\ UNCHANGED <<convVars, merge, fn>>

\* conversion_tasks.py lines 104-176: with the TTS service available and the
\* synthesis returning, audio_path holds the audio; with the service
\* unavailable, or the synthesis raising, a .txt file of demo content is
\* written in its place
TaskSynthesize ==
    /\ job.caller = "celery" /\ job.step = "synthesize"
    /\ \E available \in BOOLEAN, raised \in BOOLEAN :
          /\ ~available => ~raised
          /\ job' = [job EXCEPT !.step = "finalize",
                                !.progress = IF available THEN 60 ELSE 55,
                                !.book = "converting_audio",
                                !.audio = IF available /\ ~raised THEN "mp3" ELSE "txt"]
    /\ UNCHANGED <<convVars, merge, fn>>

\* conversion_tasks.py lines 178-192 and 375-392: finalize_conversion and the
\* returned {"status": "completed"}
TaskFinalize ==
    /\ job.caller = "celery" /\ job.step = "finalize"
    /\ job' = [job EXCEPT !.step = "done", !.progress = 100, !.status = "success",
                          !.book = "completed", !.outcome = "completed"]
    /\ UNCHANGED <<convVars, merge, fn>>

\* app.py: st.error(...) and return (lines 314, 339, 393, 396)
ShowError(j) == [j EXCEPT !.step = "done", !.outcome = "shown_error"]

\* app.py lines 291-327: extraction (and the optional AI processing) yields
\* chapters, yields none, or raises
AppExtract ==
    /\ job.caller = "streamlit" /\ job.step = "start"
    /\ \E extracted \in {"chapters", "none", "raise"} :
          job' = IF extracted = "chapters"
                 THEN [job EXCEPT !.step = "convert",
                                  !.text = IF job.use_ai THEN "enhanced" ELSE "original"]
                 ELSE ShowError(job)
    /\ UNCHANGED <<convVars, merge, fn>>

\* app.py lines 330-342: convert_chapters_to_audio returns some paths, returns
\* [], or raises
AppConvert ==
    /\ job.caller = "streamlit" /\ job.step = "convert"
    /\ \E converted \in {"some", "empty", "raise"} :
          job' = IF converted = "some"
                 THEN [job EXCEPT !.step = "merge", !.progress = 80]
                 ELSE ShowError(job)
    /\ UNCHANGED <<convVars, merge, fn>>

\* app.py lines 345-393 and 406-414: await_merge_audio answers False for a
\* merge that returns False or raises; True shows the audiobook
AppMerge ==
    /\ job.caller = "streamlit" /\ job.step = "merge"
    /\ \E merged \in {"True", "False", "raise"} :
          job' = IF merged = "True"
                 THEN [job EXCEPT !.step = "done", !.progress = 100, !.audio = "mp3",
                                  !.outcome = "shown_success"]
                 ELSE ShowError(job)
    /\ UNCHANGED <<convVars, merge, fn>>

NextJob ==
    \/ TaskStart
    \/ TaskExtract
    \/ TaskProcess
    \/ TaskSynthesize
    \/ TaskFinalize
    \/ AppExtract
    \/ AppConvert
    \/ AppMerge

SpecJob == InitJob /\ [][NextJob]_vars

\* C18: a job that ends without usable audio is reported as failed and is
\* neither recorded nor shown as a completed conversion
C18_NoAudioNeverSuccess ==
    (job.caller # "none" /\ job.step = "done" /\ job.audio # "mp3") =>
        /\ job.outcome \in {"raised", "shown_error"}
        /\ job.status # "success"
        /\ job.book # "completed"

-----------------------------------------------------------------------------
(* The text chunker of the backend TTS service                               *)
(* (backend/app/services/tts_service.py), on texts as sequences of           *)
(* characters                                                                *)

\* the longest text and the largest max_chunk_size explored
MaxTextLen == 5
MaxBudget == 4

Alphabet == {"a", "b", " ", ".", "?"}
Terminators == {".", "!", "?"}
Whitespace == {" "}

RECURSIVE Texts(_)
\* the texts of at most n characters
Texts(n) ==
    IF n = 0 THEN {<<>>}
    ELSE Texts(n - 1) \cup {Append(t, c) : t \in {u \in Texts(n - 1) : Len(u) = n - 1},
                                           c \in Alphabet}

RECURSIVE Strip(_)
\* str.strip()
Strip(str) ==
    IF str = <<>> THEN <<>>
    ELSE IF str[1] \in Whitespace THEN Strip(Tail(str))
    ELSE IF str[Len(str)] \in Whitespace THEN Strip(SubSeq(str, 1, Len(str) - 1))
    ELSE str

RECURSIVE ReSplit(_)
\* re.split(r'[.!?]+', text): the stretches between runs of terminators
ReSplit(text) ==
    IF \A n \in 1 .. Len(text) : text[n] \notin Terminators THEN <<text>>
    ELSE LET p == CHOOSE n \in 1 .. Len(text) :
                      /\ text[n] \in Terminators
                      /\ \A m \in 1 .. n - 1 : text[m] \notin Terminators
             q == CHOOSE n \in p + 1 .. Len(text) + 1 :
                      /\ n = Len(text) + 1 \/ text[n] \notin Terminators
                      /\ \A m \in p .. n - 1 : text[m] \in Terminators
         IN  <<SubSeq(text, 1, p - 1)>> \o ReSplit(SubSeq(text, q, Len(text)))

RECURSIVE Cleaned(_)
\* lines 281-288: each stretch stripped, the empty ones dropped, a period put
\* at the end of one that ends in no terminator
Cleaned(parts) ==
    IF parts = <<>> THEN <<>>
    ELSE LET sentence == Strip(Head(parts))
         IN  IF sentence = <<>> THEN Cleaned(Tail(parts))
             ELSE IF sentence[Len(sentence)] \in Terminators
             THEN <<sentence>> \o Cleaned(Tail(parts))
             ELSE <<Append(sentence, ".")>> \o Cleaned(Tail(parts))

\* lines 271-290
_split_into_sentences(text) == Cleaned(ReSplit(text))

RECURSIVE Join(_)
\* " ".join(strs)
Join(strs) ==
    IF strs = <<>> THEN <<>>
    ELSE IF Len(strs) = 1 THEN strs[1]
    ELSE strs[1] \o <<" ">> \o Join(Tail(strs))

RECURSIVE ChunkingDroppingOverflow(_, _, _, _, _)
\* a loop that starts the next chunk empty, losing the sentence that did not fit
ChunkingDroppingOverflow(sentences, chunks, current_chunk, current_size, max_chunk_size) ==
    IF sentences = <<>>
    THEN IF current_chunk # <<>> THEN Append(chunks, Join(current_chunk)) ELSE chunks
    ELSE LET sentence == Head(sentences)
             sentence_size == Len(sentence)
         IN  IF current_size + sentence_size > max_chunk_size /\ current_chunk # <<>>
             THEN ChunkingDroppingOverflow(Tail(sentences),
                                           Append(chunks, Join(current_chunk)),
                                           <<>>, 0, max_chunk_size)
             ELSE ChunkingDroppingOverflow(Tail(sentences), chunks,
                                           Append(current_chunk, sentence),
                                           current_size + sentence_size, max_chunk_size)

RECURSIVE Chunking(_, _, _, _, _)
\* lines 249-264: the loop over the sentences left, and the last chunk
Chunking(sentences, chunks, current_chunk, current_size, max_chunk_size) ==
    IF sentences = <<>>
    THEN IF current_chunk # <<>> THEN Append(chunks, Join(current_chunk)) ELSE chunks
    ELSE LET sentence == Head(sentences)
             sentence_size == Len(sentence)
         IN  IF current_size + sentence_size > max_chunk_size /\ current_chunk # <<>>
             THEN Chunking(Tail(sentences), Append(chunks, Join(current_chunk)),
                           <<sentence>>, sentence_size, max_chunk_size)
             ELSE Chunking(Tail(sentences), chunks, Append(current_chunk, sentence),
                           current_size + sentence_size, max_chunk_size)

RECURSIVE StripAll(_)
\* line 267: [chunk.strip() for chunk in chunks if chunk.strip()]
StripAll(chunks) ==
    IF chunks = <<>> THEN <<>>
    ELSE IF Strip(Head(chunks)) = <<>> THEN StripAll(Tail(chunks))
    ELSE <<Strip(Head(chunks))>> \o StripAll(Tail(chunks))

\* lines 239-269
_split_text_for_tts(text, max_chunk_size) ==
    StripAll(Chunking(_split_into_sentences(text), <<>>, <<>>, 0, max_chunk_size))

\* one call _split_text_for_tts(text, max_chunk_size), not yet made
SplitCall(text, max_chunk_size) ==
    [name |-> "split", text |-> text, max_chunk_size |-> max_chunk_size,
     done |-> FALSE, chunks |-> <<>>]

InitSplit ==
    /\ ConverterIdle
    /\ merge = MergeIdle
    /\ job = JobIdle
    /\ \E text \in Texts(MaxTextLen), max_chunk_size \in 1 .. MaxBudget :
          fn = SplitCall(text, max_chunk_size)

SplitText ==
    /\ fn.name = "split" /\ ~fn.done
    /\ fn' = [fn EXCEPT !.done = TRUE,
                        !.chunks = _split_text_for_tts(fn.text, fn.max_chunk_size)]
    /\ UNCHANGED <<convVars, merge, job>>

NextSplit == SplitText

SpecSplit == InitSplit /\ [][NextSplit]_vars

\* C22: every chunk returned by _split_text_for_tts(text, max_chunk_size) has
\* at most max_chunk_size characters
C22_ChunksWithinBudget ==
    (fn.name = "split" /\ fn.done) =>
        \A k \in 1 .. Len(fn.chunks) : Len(fn.chunks[k]) <= fn.max_chunk_size

RECURSIVE NonEmptyStripped(_)
NonEmptyStripped(parts) ==
    IF parts = <<>> THEN <<>>
    ELSE IF Strip(Head(parts)) = <<>> THEN NonEmptyStripped(Tail(parts))
    ELSE <<Strip(Head(parts))>> \o NonEmptyStripped(Tail(parts))

\* the non-empty sentences of a text, in order: what stands between its runs
\* of terminators, without the surrounding whitespace
SentencesIn(text) == NonEmptyStripped(ReSplit(text))

\* C30: the chunks returned by _split_text_for_tts, read in order, hold every
\* non-empty sentence of the input exactly once and in input order, and no
\* returned chunk is empty
C30_NothingLostDuplicatedReordered ==
    (fn.name = "split" /\ fn.done) =>
        /\ \A k \in 1 .. Len(fn.chunks) : fn.chunks[k] # <<>>
        /\ SentencesIn(Join(fn.chunks)) = SentencesIn(fn.text)

\* a text of three sentences returned as two chunks, the first holding two
C30_Witness ==
    /\ fn.name = "split" /\ fn.done
    /\ Len(SentencesIn(fn.text)) = 3
    /\ Len(fn.chunks) = 2
    /\ Len(SentencesIn(fn.chunks[1])) = 2
    /\ SentencesIn(fn.text)[1] # SentencesIn(fn.text)[2]

-----------------------------------------------------------------------------
(* Two requests against one cache directory (tts_converter.py lines 102-105, *)
(* 122-157): converters built with any engine and voice, under any           *)
(* SPEECH_RATE, share settings.temp_dir/tts_cache                            *)

KeyTexts == {<<>>, <<" ">>, <<"a">>, <<"a", "_", "g", "t", "t", "s">>}
KeyEngines == {"gtts", "edge-tts"}
KeyVoices == {"v", "gtts_v"}
KeyRates == {"1.0", "1.5"}

Requests == [text : KeyTexts, engine : KeyEngines, voice : KeyVoices, rate : KeyRates]

\* the key of line 123 for a converter with the request's engine and voice,
\* run with the request's speech rate
KeyOf(r) == Md5(CacheContent(r.text, r.engine, r.voice, r.rate))

\* what the file at an output path holds: nothing, what an earlier run left, or
\* the audio synthesized for a request (written as that request)
NotServed == [text |-> <<>>, engine |-> "none", voice |-> "none", rate |-> "none"]
LeftBehind == [text |-> <<>>, engine |-> "stale", voice |-> "none", rate |-> "none"]

\* a text that is empty
BlankOnlyEmpty(text) == text = <<>>

\* line 118: not text or not text.strip()
Blank(text) == text = <<>> \/ Strip(text) = <<>>

InitKey ==
    /\ ConverterIdle
    /\ merge = MergeIdle
    /\ job = JobIdle
    /\ \E first \in Requests, second \in Requests, before \in {NotServed, LeftBehind} :
          fn = [name |-> "key", step |-> 1, requests |-> <<first, second>>,
                entries |-> {}, before |-> before, calls |-> <<>>]

\* one completed call of convert_text_to_audio
Called(result, looked, invoked, file, entriesBefore) ==
    [result |-> result, lookup |-> looked, invoked |-> invoked, file |-> file,
     entriesBefore |-> entriesBefore]

\* lines 107-161, one call for the next request, each call with an output path
\* of its own that holds fn.before
ConvertText ==
    /\ fn.name = "key" /\ fn.step \in 1 .. 2
    /\ LET r == fn.requests[fn.step]
           hit == \E e \in fn.entries : e.key = KeyOf(r)
           cached == (CHOOSE e \in fn.entries : e.key = KeyOf(r)).audio
           Finish(call, entries) ==
               fn' = [fn EXCEPT !.step = @ + 1, !.entries = entries,
                                !.calls = Append(@, call)]
       IN  IF Blank(r.text)
           THEN \* lines 118-120
                Finish(Called(FALSE, "none", FALSE, fn.before, fn.entries), fn.entries)
           ELSE \E readFault \in BOOLEAN, success \in BOOLEAN, storeFault \in BOOLEAN :
                IF hit /\ ~readFault
                THEN \* lines 125-131
                     /\ ~success /\ ~storeFault
                     /\ Finish(Called(TRUE, "hit", FALSE, cached, fn.entries), fn.entries)
                ELSE /\ ~hit => ~readFault
                     /\ ~success => ~storeFault
                     /\ IF success
                        THEN \* lines 136-157
                             Finish(Called(TRUE, IF hit THEN "read_raised" ELSE "miss",
                                           TRUE, r, fn.entries),
                                    IF storeFault THEN fn.entries
                                    ELSE {e \in fn.entries : e.key # KeyOf(r)}
                                             \cup {[key |-> KeyOf(r), audio |-> r]})
                        ELSE Finish(Called(FALSE, IF hit THEN "read_raised" ELSE "miss",
                                           TRUE, fn.before, fn.entries), fn.entries)
    /\ UNCHANGED <<convVars, merge, job>>

NextKey == ConvertText

SpecKey == InitKey /\ [][NextKey]_vars

\* C23: two requests have the same cache-key content only if their text,
\* engine, voice and speech rate are all equal, so a lookup never returns
\* audio synthesized for a different tuple
C23_KeyContentSeparatesRequests ==
    (fn.name = "key" /\ fn.step = 3) =>
        LET first == fn.requests[1]
            second == fn.requests[2]
        IN  /\ (~Blank(first.text) /\ ~Blank(second.text)) =>
                  (CacheContent(first.text, first.engine, first.voice, first.rate)
                     = CacheContent(second.text, second.engine, second.voice, second.rate)
                   => first = second)
            /\ fn.calls[2].lookup = "hit" => fn.calls[2].file = second

\* C26: convert_text_to_audio called with empty or whitespace-only text
\* returns False, invokes no engine, neither reads nor writes the cache and
\* leaves the file at output_path as it was
C26_BlankTextTouchesNothing ==
    fn.name = "key" =>
        \A k \in 1 .. Len(fn.calls) :
            Strip(fn.requests[k].text) = <<>> =>
                /\ fn.calls[k].result = FALSE
                /\ ~fn.calls[k].invoked
                /\ fn.calls[k].lookup = "none"
                /\ fn.calls[k].file = fn.before
                /\ fn.calls[k].entriesBefore =
                       (IF k < Len(fn.calls) THEN fn.calls[k + 1].entriesBefore
                        ELSE fn.entries)

\* a whitespace-only text was turned down while the cache held an entry and a
\* file stood at the output path
C26_Witness ==
    /\ fn.name = "key" /\ fn.step = 3
    /\ fn.requests[2].text = <<" ">>
    /\ fn.entries # {}
    /\ fn.before = LeftBehind
    /\ fn.calls[2].result = FALSE

-----------------------------------------------------------------------------
(* The conversion endpoints (backend/app/api/endpoints/conversion.py) for    *)
(* one book, with the Celery tasks they send and revoke                      *)
(* (backend/app/tasks/conversion_tasks.py) and the Book and ConversionJob    *)
(* rows both sides write                                                     *)

\* the most ConversionJob rows created for the book
MaxJobs == 2

\* Book.is_processing, book.py lines 96-104
is_processing(book) == book \in {"extracting_text", "processing_text", "converting_audio"}

\* Book.has_failed
has_failed(book) == book = "failed"

\* ConversionJob.is_running
is_running(row) == row.status \in {"started", "processing"}

\* ConversionJob.update_progress, conversion_job.py lines 102-110
update_progress(row, percentage) ==
    [row EXCEPT !.progress = percentage,
                !.status = IF percentage >= 100 THEN "success" ELSE @]

\* ConversionJob.set_error, conversion_job.py lines 112-117
set_error(row) == [row EXCEPT !.status = "failure"]

\* the ConversionJob row of conversion.py lines 44-66, its task sent and not
\* yet begun
NewJob == [status |-> "started", progress |-> 0, step |-> "queued", revoking |-> FALSE]

InitApi ==
    /\ ConverterIdle
    /\ merge = MergeIdle
    /\ fn = FnIdle
    /\ \E book \in {"uploaded", "absent"} :
          job = [caller |-> "api", book |-> book, jobs |-> <<>>, response |-> "none"]

\* conversion.py lines 26-70
start_conversion ==
    /\ job.caller = "api"
    /\ Len(job.jobs) < MaxJobs
    /\ job' = IF job.book = "absent"
              THEN [job EXCEPT !.response = "404"]
              ELSE IF is_processing(job.book)
              THEN [job EXCEPT !.response = "400"]
              ELSE [job EXCEPT !.book = IF has_failed(@) THEN "uploaded" ELSE @,
                               !.jobs = Append(@, NewJob),
                               !.response = "started"]
    /\ UNCHANGED <<convVars, merge, fn>>

\* conversion_tasks.py lines 194-198: mark_job_failed, mark_book_failed, raise
TaskFailed(k) ==
    [job EXCEPT !.jobs[k] = [set_error(@) EXCEPT !.step = "done"],
                !.book = "failed"]

\* conversion_tasks.py lines 31-198, from one write of the Book's status to the
\* next
convert_book_to_audiobook(k) ==
    /\ job.caller = "api"
    /\ k \in 1 .. Len(job.jobs)
    /\ LET row == job.jobs[k]
           Go(percentage, book, step) ==
               [job EXCEPT !.jobs[k] = [update_progress(row, percentage)
                                           EXCEPT !.step = step],
                           !.book = book]
       IN  \E raised \in BOOLEAN :
           CASE row.step = "queued" ->
                  \* lines 39-48
                  /\ ~raised
                  /\ job' = Go(10, "extracting_text", "extracting")
             [] row.step = "extracting" ->
                  \* lines 50-71
                  job' = IF raised THEN TaskFailed(k)
                         ELSE Go(30, "text_extracted", "extracted")
             [] row.step = "extracted" ->
                  \* lines 74-75
                  /\ ~raised
                  /\ job' = Go(35, "processing_text", "processing")
             [] row.step = "processing" ->
                  \* lines 77-101
                  /\ ~raised
                  /\ job' = Go(50, "text_processed", "processed")
             [] row.step = "processed" ->
                  \* lines 104-105
                  /\ ~raised
                  /\ job' = Go(55, "converting_audio", "converting")
             [] row.step = "converting" ->
                  \* lines 107-192, finalize_conversion (lines 375-392) included
                  job' = IF raised THEN TaskFailed(k)
                         ELSE Go(100, "completed", "done")
             [] row.step \in {"done", "killed"} -> FALSE
    /\ UNCHANGED <<convVars, merge, fn>>

\* conversion.py lines 147-177: the revoke is a message to the worker, the row
\* is written at once
cancel_conversion(k) ==
    /\ job.caller = "api"
    /\ k \in 1 .. Len(job.jobs)
    /\ job' = IF is_running(job.jobs[k])
              THEN [job EXCEPT !.jobs[k].status = "revoked",
                               !.jobs[k].revoking = TRUE,
                               !.response = "cancelled"]
              ELSE [job EXCEPT !.response = "400"]
    /\ UNCHANGED <<convVars, merge, fn>>

\* the worker receives the revoke and terminates the process of the task
Terminate(k) ==
    /\ job.caller = "api"
    /\ k \in 1 .. Len(job.jobs)
    /\ job.jobs[k].revoking
    /\ job.jobs[k].step \notin {"done", "killed"}
    /\ job' = [job EXCEPT !.jobs[k].step = "killed"]
    /\ UNCHANGED <<convVars, merge, fn>>

NextApi ==
    \/ start_conversion
    \/ \E k \in 1 .. MaxJobs : convert_book_to_audiobook(k)
    \/ \E k \in 1 .. MaxJobs : cancel_conversion(k)
    \/ \E k \in 1 .. MaxJobs : Terminate(k)

SpecApi == InitApi /\ [][NextApi]_vars

\* the jobs whose task has not ended
ActiveJobs ==
    IF job.caller = "api"
    THEN {k \in 1 .. Len(job.jobs) : job.jobs[k].step \notin {"done", "killed"}}
    ELSE {}

\* C28: at most one conversion job per book is active at any time:
\* start_conversion turns down a book whose conversion has started and not
\* finished
C28_OneActiveJobPerBook == Cardinality(ActiveJobs) <= 1

\* C29: once cancel_conversion has set a job to REVOKED its status never
\* changes again
C29_RevokedIsFinal ==
    [][\A k \in 1 .. MaxJobs :
          (job.caller = "api" /\ k <= Len(job.jobs) /\ job.jobs[k].status = "revoked")
              => job'.jobs[k].status = "revoked"]_vars

====
